---- MODULE Spec2Model ----
(***************************************************************************)
(* Model of src/mbr/writer.rs: the MbrBuilder fluent configuration, its    *)
(* compile() validation, and the MbrWriter it yields.                      *)
(*                                                                         *)
(* A byte slice (bootcode, bootcode part 2) is modelled by its length: the *)
(* only thing the code ever reads of a stored slice is len().              *)
(* Option<T> is modelled as a sequence: None is <<>>, Some(x) is <<x>>.    *)
(***************************************************************************)
EXTENDS Integers, Sequences, FiniteSets, TLC

\* ------------------------------------------------------------------ bounds
\* Most partition specs a builder is given in a run.
MaxParts == 2

\* ------------------------------------------------------------------ Option
None == <<>>

Some(x) == <<x>>

is_some(o) == o # None

\* Option<Vec<u8>>::as_ref().map_or(0, |x| x.len()), a slice being its length
map_or_len(o) == IF o = None THEN 0 ELSE o[1]

\* ------------------------------------------------------------ spec model
Previous(n) == <<"Previous", n>>

PartRefNext(n) == <<"Next", n>>

PartRefExact(n) == <<"Exact", n>>

AtEndOf(r) == <<"AtEndOf", r>>

AtStartOf(r) == <<"AtStartOf", r>>

NumSpecExact(n) == <<"Exact", n>>

AfterPart(r) == <<"AfterPart", r>>

BeforePart(r) == <<"BeforePart", r>>

Number(n) == <<"Number", n>>

Start(l) == <<"Start", l>>

End(l) == <<"End", l>>

IsBootable == <<"IsBootable">>

MbrPartSpec(specs) == [specs |-> specs]

\* MbrPartSpec::is_bootable: scan the constraints, return at the first IsBootable
RECURSIVE is_bootable_from(_, _)
is_bootable_from(specs, i) ==
    IF i > Len(specs) THEN FALSE
    ELSE IF specs[i][1] = "IsBootable" THEN TRUE
    ELSE is_bootable_from(specs, i + 1)

is_bootable(self) == is_bootable_from(self.specs, 1)

\* --------------------------------------------------------------- errors
BootcodeOversized(n) == <<"BootcodeOversized", n>>

Bootcode2Oversized(n) == <<"Bootcode2Oversized", n>>

OriginalPhysDriveOverlapped == <<"OriginalPhysDriveOverlapped">>

DiskSigOverlapped == <<"DiskSigOverlapped">>

BootCodeOverlapped(a, b) == <<"BootCodeOverlapped", a, b>>

MoreThan1Bootable == <<"MoreThan1Bootable">>

\* Result<T, MbrBuilderError>: val is Some(t) for Ok(t), err is Some(e) for Err(e)
Ok(t) == [tag |-> "Ok", val |-> Some(t), err |-> None]

Err(e) == [tag |-> "Err", val |-> None, err |-> Some(e)]

\* A call that returns a value, and a call that panics with a message
Ret(v) == [tag |-> "Ret", val |-> Some(v), msg |-> None]

Panic(m) == [tag |-> "Panic", val |-> None, msg |-> Some(m)]

\* -------------------------------------------------------------- inputs
\* Slice lengths handed to set_bootcode: both sides of every limit the code tests
BootcodeLens == {0, 218, 219, 221, 222, 224, 225, 440, 441, 446, 447}

\* Slice lengths handed to set_bootcode_part2
Bootcode2Lens == {0, 216, 217, 222, 223}

Timestamps == {0}

DriveBytes == {128, 255}

DiskSigs == {<<1, 0>>}

\* Partition requests handed to partition_add
PartSpecInputs ==
    { MbrPartSpec(<<>>),
      MbrPartSpec(<<IsBootable>>),
      MbrPartSpec(<<IsBootable, IsBootable>>),
      MbrPartSpec(<<Number(NumSpecExact(0))>>),
      MbrPartSpec(<<Number(AfterPart(Previous(1))), IsBootable>>),
      MbrPartSpec(<<IsBootable, Start(AtEndOf(PartRefExact(0)))>>),
      MbrPartSpec(<<Start(AtEndOf(Previous(1))), End(AtStartOf(PartRefNext(0)))>>) }

\* ------------------------------------------------------------- MbrBuilder
new ==
    [ bootcode |-> None,
      bootcode_2 |-> None,
      partitions |-> <<>>,
      timestamp |-> None,
      original_physical_drive |-> None,
      disk_sig |-> None ]

set_bootcode_unchecked(self, code) ==
    Ret([self EXCEPT !.bootcode = Some(code)])

set_bootcode(self, code) ==
    IF code > 446
    THEN Panic(<<"Bootcode must be at most 446 bytes long", code>>)
    ELSE Ret([self EXCEPT !.bootcode = Some(code)])

set_timestamp(self, ts) == Ret([self EXCEPT !.timestamp = Some(ts)])

set_original_physical_drive(self, drv) ==
    Ret([self EXCEPT !.original_physical_drive = Some(drv)])

set_bootcode_part2(self, code) ==
    IF code > 222
    THEN Panic(<<"Bootcode #2 must be at most 222 bytes long", code>>)
    ELSE Ret([self EXCEPT !.bootcode_2 = Some(code)])

set_disk_signature(self, sig, extra) ==
    Ret([self EXCEPT !.disk_sig = Some(<<sig, extra>>)])

partition_add(self, spec) ==
    Ret([self EXCEPT !.partitions = Append(@, spec)])

is_modern_without_disk_sig(self) ==
    \/ is_some(self.bootcode_2)
    \/ is_some(self.original_physical_drive)
    \/ is_some(self.timestamp)

is_modern(self) ==
    \/ is_some(self.bootcode_2)
    \/ is_some(self.original_physical_drive)
    \/ is_some(self.timestamp)
    \/ is_some(self.disk_sig)

\* The loop of partition_check from partition i on, fb as the loop left it
RECURSIVE partition_check_from(_, _, _)
partition_check_from(parts, i, fb) ==
    IF i > Len(parts) THEN Ok(<<>>)
    ELSE IF is_bootable(parts[i])
         THEN IF fb THEN Err(MoreThan1Bootable)
              ELSE partition_check_from(parts, i + 1, TRUE)
         ELSE partition_check_from(parts, i + 1, fb)

\* A check that counts IsBootable constraints instead of partitions
RECURSIVE count_bootable_constraints(_, _)
count_bootable_constraints(specs, i) ==
    IF i > Len(specs) THEN 0
    ELSE (IF specs[i][1] = "IsBootable" THEN 1 ELSE 0)
         + count_bootable_constraints(specs, i + 1)

RECURSIVE sum_bootable_constraints(_, _)
sum_bootable_constraints(parts, i) ==
    IF i > Len(parts) THEN 0
    ELSE count_bootable_constraints(parts[i].specs, 1)
         + sum_bootable_constraints(parts, i + 1)

partition_check_by_constraint(self) ==
    IF sum_bootable_constraints(self.partitions, 1) > 1
    THEN Err(MoreThan1Bootable)
    ELSE Ok(<<>>)

partition_check(self) == partition_check_from(self.partitions, 1, FALSE)

MbrWriter(inner) == [inner |-> inner]

\* compile with the disk-signature limit on bootcode off by one
compile_sig_441(self) ==
    LET b1 == map_or_len(self.bootcode)
        b2 == map_or_len(self.bootcode_2)
    IN  IF is_some(self.original_physical_drive) /\ b1 > 218
        THEN Err(OriginalPhysDriveOverlapped)
        ELSE IF is_some(self.timestamp) /\ b1 > 221
        THEN Err(BootcodeOversized(b1))
        ELSE IF is_some(self.disk_sig) /\ (b1 > 441 \/ b2 > 216)
        THEN Err(DiskSigOverlapped)
        ELSE IF b2 > 0 /\ b1 > 224
        THEN Err(BootCodeOverlapped(b1, b2))
        ELSE Ok(MbrWriter(self))

\* compile with the drive-byte limit tested with >= instead of >
compile_drive_ge(self) ==
    LET b1 == map_or_len(self.bootcode)
        b2 == map_or_len(self.bootcode_2)
    IN  IF is_some(self.original_physical_drive) /\ b1 >= 218
        THEN Err(OriginalPhysDriveOverlapped)
        ELSE IF is_some(self.timestamp) /\ b1 > 221
        THEN Err(BootcodeOversized(b1))
        ELSE IF is_some(self.disk_sig) /\ (b1 > 440 \/ b2 > 216)
        THEN Err(DiskSigOverlapped)
        ELSE IF b2 > 0 /\ b1 > 224
        THEN Err(BootCodeOverlapped(b1, b2))
        ELSE Ok(MbrWriter(self))

\* compile with the lengths of BootCodeOverlapped in the wrong order
compile_swapped_lengths(self) ==
    LET b1 == map_or_len(self.bootcode)
        b2 == map_or_len(self.bootcode_2)
    IN  IF is_some(self.original_physical_drive) /\ b1 > 218
        THEN Err(OriginalPhysDriveOverlapped)
        ELSE IF is_some(self.timestamp) /\ b1 > 221
        THEN Err(BootcodeOversized(b1))
        ELSE IF is_some(self.disk_sig) /\ (b1 > 440 \/ b2 > 216)
        THEN Err(DiskSigOverlapped)
        ELSE IF b2 > 0 /\ b1 > 224
        THEN Err(BootCodeOverlapped(b2, b1))
        ELSE Ok(MbrWriter(self))

\* compile with the timestamp test ahead of the drive-byte test
compile_timestamp_first(self) ==
    LET b1 == map_or_len(self.bootcode)
        b2 == map_or_len(self.bootcode_2)
    IN  IF is_some(self.timestamp) /\ b1 > 221
        THEN Err(BootcodeOversized(b1))
        ELSE IF is_some(self.original_physical_drive) /\ b1 > 218
        THEN Err(OriginalPhysDriveOverlapped)
        ELSE IF is_some(self.disk_sig) /\ (b1 > 440 \/ b2 > 216)
        THEN Err(DiskSigOverlapped)
        ELSE IF b2 > 0 /\ b1 > 224
        THEN Err(BootCodeOverlapped(b1, b2))
        ELSE Ok(MbrWriter(self))

compile(self) ==
    LET b1 == map_or_len(self.bootcode)
        b2 == map_or_len(self.bootcode_2)
    IN  IF is_some(self.original_physical_drive) /\ b1 > 218
        THEN Err(OriginalPhysDriveOverlapped)
        ELSE IF is_some(self.timestamp) /\ b1 > 221
        THEN Err(BootcodeOversized(b1))
        ELSE IF is_some(self.disk_sig) /\ (b1 > 440 \/ b2 > 216)
        THEN Err(DiskSigOverlapped)
        ELSE IF b2 > 0 /\ b1 > 224
        THEN Err(BootCodeOverlapped(b1, b2))
        ELSE Ok(MbrWriter(self))

\* -------------------------------------------------------------- MbrWriter
writer_is_modern(self) == is_modern(self.inner)

\* commit(&self, back): the body is unimplemented!(), which panics before
\* anything is written to back; io is the write_at calls made on back so far
commit(self, io) == [ret |-> Panic(<<"not yet implemented">>), io |-> io]

\* ------------------------------------------------------------------ state
VARIABLES
    builder,    \* Option<MbrBuilder>: the builder the caller holds, None once moved
    writer,     \* Option<MbrWriter>: the writer the caller holds
    result,     \* Option<Result<MbrWriter, MbrBuilderError>>: what compile returned
    panic,      \* Option<message>: the panic that ended the run
    writes,     \* the write_at calls made on the storage, in order
    modern,     \* Option<bool>: the last answer of MbrWriter::is_modern
    commit_ret, \* Option<outcome>: how the call of MbrWriter::commit ended
    check,      \* Option<Result<(), MbrBuilderError>>: partition_check of this builder
    given       \* the caller's view: the last argument accepted by each setter

vars == <<builder, writer, result, panic, writes, modern, commit_ret, check, given>>

Init ==
    /\ builder = Some(new)
    /\ writer = None
    /\ result = None
    /\ panic = None
    /\ writes = <<>>
    /\ modern = None
    /\ commit_ret = None
    /\ check = None
    /\ given = new

Building == is_some(builder) /\ panic = None

\* A builder method was called with what the caller recorded as g: the builder
\* is moved into the call and comes back, or the call panics and it is dropped
Fluent(r, g) ==
    /\ builder' = r.val
    /\ panic' = r.msg
    /\ given' = IF r.tag = "Ret" THEN g ELSE given
    /\ check' = None
    /\ UNCHANGED <<writer, result, writes, modern, commit_ret>>

SetBootcode ==
    /\ Building
    /\ \E code \in BootcodeLens :
          Fluent(set_bootcode(builder[1], code),
                 [given EXCEPT !.bootcode = Some(code)])

SetTimestamp ==
    /\ Building
    /\ \E ts \in Timestamps :
          Fluent(set_timestamp(builder[1], ts),
                 [given EXCEPT !.timestamp = Some(ts)])

SetOriginalPhysicalDrive ==
    /\ Building
    /\ \E drv \in DriveBytes :
          Fluent(set_original_physical_drive(builder[1], drv),
                 [given EXCEPT !.original_physical_drive = Some(drv)])

SetBootcodePart2 ==
    /\ Building
    /\ \E code \in Bootcode2Lens :
          Fluent(set_bootcode_part2(builder[1], code),
                 [given EXCEPT !.bootcode_2 = Some(code)])

SetDiskSignature ==
    /\ Building
    /\ \E s \in DiskSigs :
          Fluent(set_disk_signature(builder[1], s[1], s[2]),
                 [given EXCEPT !.disk_sig = Some(s)])

PartitionAdd ==
    /\ Building
    /\ Len(builder[1].partitions) < MaxParts
    /\ \E spec \in PartSpecInputs :
          Fluent(partition_add(builder[1], spec),
                 [given EXCEPT !.partitions = Append(@, spec)])

\* A compile that writes the sector to the storage before it validates
CompileWritingFirst ==
    /\ Building
    /\ result' = Some(compile(builder[1]))
    /\ writer' = result'[1].val
    /\ builder' = None
    /\ writes' = Append(writes, [offset |-> 0, len |-> 512])
    /\ UNCHANGED <<panic, modern, commit_ret, check, given>>

\* compile(self): the builder is consumed; Ok carries the writer made of it
Compile ==
    /\ Building
    /\ result' = Some(compile(builder[1]))
    /\ writer' = result'[1].val
    /\ builder' = None
    /\ UNCHANGED <<panic, writes, modern, commit_ret, check, given>>

IsModern ==
    /\ is_some(writer)
    /\ panic = None
    /\ modern' = Some(writer_is_modern(writer[1]))
    /\ UNCHANGED <<builder, writer, result, panic, writes, commit_ret, check, given>>

Commit ==
    /\ is_some(writer)
    /\ panic = None
    /\ LET c == commit(writer[1], writes)
       IN  /\ commit_ret' = Some(c.ret)
           /\ panic' = c.ret.msg
           /\ writes' = c.io
    /\ UNCHANGED <<builder, writer, result, modern, check, given>>

Next ==
    \/ SetBootcode
    \/ SetTimestamp
    \/ SetOriginalPhysicalDrive
    \/ SetBootcodePart2
    \/ SetDiskSignature
    \/ PartitionAdd
    \/ Compile
    \/ IsModern
    \/ Commit

Spec == Init /\ [][Next]_vars

\* partition_check is private and compile never calls it: it is exercised on its
\* own, on every partition list partition_add can build
PartitionCheck ==
    /\ Building
    /\ check' = Some(partition_check(builder[1]))
    /\ UNCHANGED <<builder, writer, result, panic, writes, modern, commit_ret, given>>

NextCheck ==
    \/ PartitionAdd
    \/ PartitionCheck

SpecCheck == Init /\ [][NextCheck]_vars

\* ------------------------------------------------------------ properties
Compiled == is_some(result)

CompiledOk == Compiled /\ result[1].tag = "Ok"

CompiledErr == Compiled /\ result[1].tag = "Err"

CompileError == result[1].err[1]

B1 == map_or_len(given.bootcode)

B2 == map_or_len(given.bootcode_2)

\* The rows of the field budget table, in the order drive byte, timestamp,
\* disk signature, bootcode / bootcode part 2 boundary
RowDriveByte == is_some(given.original_physical_drive) => B1 <= 218

RowTimestamp == is_some(given.timestamp) => B1 <= 221

RowDiskSig == is_some(given.disk_sig) => (B1 <= 440 /\ B2 <= 216)

\* the last row read as "bootcode_2 set, with any content"
RowBootcode2Set == is_some(given.bootcode_2) => B1 <= 224

\* the last row read as "bootcode part 2 holds at least one byte"
RowBootcode2NonEmpty == B2 > 0 => B1 <= 224

TableRow(i) ==
    CASE i = 1 -> RowDriveByte
      [] i = 2 -> RowTimestamp
      [] i = 3 -> RowDiskSig
      [] i = 4 -> RowBootcode2Set

CodeRow(i) ==
    CASE i = 1 -> RowDriveByte
      [] i = 2 -> RowTimestamp
      [] i = 3 -> RowDiskSig
      [] i = 4 -> RowBootcode2NonEmpty

RowError(i) ==
    CASE i = 1 -> OriginalPhysDriveOverlapped
      [] i = 2 -> BootcodeOversized(B1)
      [] i = 3 -> DiskSigOverlapped
      [] i = 4 -> BootCodeOverlapped(B1, B2)

TableViolated == {i \in 1..4 : ~TableRow(i)}

CodeViolated == {i \in 1..4 : ~CodeRow(i)}

First(S) == CHOOSE i \in S : \A j \in S : i <= j

\* The partitions whose spec lists IsBootable at least once
BootableParts(parts) ==
    {i \in DOMAIN parts : \E j \in DOMAIN parts[i].specs : parts[i].specs[j] = IsBootable}

\* A builder given a disk signature and neither a drive byte nor a timestamp
DiskSigOnly ==
    /\ is_some(given.disk_sig)
    /\ given.original_physical_drive = None
    /\ given.timestamp = None

\* C1 (as claimed): with a disk signature set, bootcode of 440 bytes and bootcode
\* part 2 of 216 bytes compile succeeds, and with bootcode of 441 bytes it fails.
C1_BoundaryAsClaimed ==
    (Compiled /\ DiskSigOnly /\ given.bootcode_2 = Some(216)) =>
        /\ given.bootcode = Some(440) => CompiledOk
        /\ given.bootcode = Some(441) => CompiledErr

\* C1 (amended): with a disk signature set and no drive byte or timestamp, bootcode
\* of 440 bytes compiles when bootcode part 2 is unset or empty and bootcode of 441
\* bytes fails with DiskSigOverlapped; with bootcode part 2 of 216 bytes compile
\* succeeds exactly when bootcode is at most 224 bytes, so 440 with 216 fails with
\* BootCodeOverlapped(440, 216).
C1_DiskSigBoundary ==
    (Compiled /\ DiskSigOnly) =>
        /\ (given.bootcode = Some(440) /\ B2 = 0) => CompiledOk
        /\ given.bootcode = Some(441) =>
              (CompiledErr /\ CompileError = DiskSigOverlapped)
        /\ given.bootcode_2 = Some(216) => (CompiledOk <=> B1 <= 224)
        /\ (given.bootcode = Some(440) /\ given.bootcode_2 = Some(216)) =>
              (CompiledErr /\ CompileError = BootCodeOverlapped(440, 216))

C1_Witness ==
    /\ CompiledOk
    /\ DiskSigOnly
    /\ given.bootcode = Some(440)
    /\ given.bootcode_2 = None

\* C2: a builder given two or more partition specs that contain IsBootable, all
\* field budgets respected, is rejected by compile with MoreThan1Bootable.
C2_TwoBootableRejected ==
    (Compiled /\ Cardinality(BootableParts(given.partitions)) >= 2 /\ CodeViolated = {}) =>
        (CompiledErr /\ CompileError = MoreThan1Bootable)

\* C3: once commit has been called, exactly one write_at call has reached the
\* storage, at offset 0 with 512 bytes, and commit has returned.
C3_CommitWritesOneSector ==
    is_some(commit_ret) =>
        /\ commit_ret[1].tag = "Ret"
        /\ writes = <<[offset |-> 0, len |-> 512]>>

\* C4 (as claimed): compile returns a writer exactly when every row of the field
\* budget table holds, the last row applying whenever bootcode_2 is set, empty or not.
C4_OkIffTableRows ==
    Compiled => (CompiledOk <=> TableViolated = {})

\* C4 (amended): compile returns a writer exactly when the drive-byte, timestamp and
\* disk-signature rows hold and bootcode is at most 224 bytes whenever bootcode part
\* 2 holds at least one byte; an empty bootcode part 2 puts no limit on bootcode.
C4_OkIffCodeRows ==
    Compiled => (CompiledOk <=> CodeViolated = {})

C4_Witness ==
    /\ CompiledOk
    /\ given.bootcode_2 = Some(0)
    /\ B1 > 224

\* C5: when compile rejects a builder that violates exactly one row of the field
\* budget table, the error is the one of that row, with the offending lengths.
C5_ErrorOfTheRow ==
    (CompiledErr /\ Cardinality(TableViolated) = 1) =>
        CompileError = RowError(First(TableViolated))

C5_Witness ==
    /\ CompiledErr
    /\ TableViolated = {4}
    /\ CompileError = BootCodeOverlapped(225, 216)

\* C6: no write reaches the storage unless compile has returned Ok; a compile that
\* returns an error leaves no writer and no write behind.
C6_NoWriteBeforeOk ==
    /\ writes # <<>> => CompiledOk
    /\ is_some(writer) => CompiledOk
    /\ CompiledErr => (writer = None /\ writes = <<>>)

C6_Witness ==
    /\ CompiledErr
    /\ builder = None
    /\ writes = <<>>

SizesHeld(b) ==
    /\ map_or_len(b.bootcode) <= 446
    /\ map_or_len(b.bootcode_2) <= 222

\* C7: every builder and every writer holds at most 446 bytes of bootcode and 222
\* bytes of bootcode part 2; a setter given more panics with the length it was
\* given and leaves no builder.
C7_SizeInvariant ==
    /\ is_some(builder) => SizesHeld(builder[1])
    /\ is_some(writer) => SizesHeld(writer[1].inner)
    /\ (is_some(panic) /\ commit_ret = None) =>
          /\ builder = None
          /\ writer = None
          /\ \/ /\ panic[1][1] = "Bootcode must be at most 446 bytes long"
                /\ panic[1][2] > 446
             \/ /\ panic[1][1] = "Bootcode #2 must be at most 222 bytes long"
                /\ panic[1][2] > 222

C7_Witness ==
    /\ panic = Some(<<"Bootcode must be at most 446 bytes long", 447>>)
    /\ builder = None

\* C8: the writer holds the builder as it was at compile, and is_modern answers
\* true exactly when bootcode part 2, the drive byte, the timestamp or the disk
\* signature had been set, whatever else was done with the writer.
C8_WriterIsModern ==
    /\ is_some(writer) => writer[1].inner = given
    /\ is_some(modern) =>
          modern[1] = \/ is_some(given.bootcode_2)
                      \/ is_some(given.original_physical_drive)
                      \/ is_some(given.timestamp)
                      \/ is_some(given.disk_sig)

C8_Witness ==
    /\ modern = Some(FALSE)
    /\ is_some(given.bootcode)
    /\ given.partitions # <<>>
    /\ is_some(commit_ret)

\* C9: partition_check returns MoreThan1Bootable exactly when at least two of the
\* builder's partition specs contain IsBootable, and Ok otherwise; IsBootable
\* listed twice in one spec counts once.
C9_CountsPartitions ==
    is_some(check) =>
        check[1] = IF Cardinality(BootableParts(given.partitions)) >= 2
                   THEN Err(MoreThan1Bootable)
                   ELSE Ok(<<>>)

C9_Witness ==
    /\ check = Some(Ok(<<>>))
    /\ \E i \in DOMAIN given.partitions :
          given.partitions[i] = MbrPartSpec(<<IsBootable, IsBootable>>)

\* C10: what compile returns is a function of the fields given and the two lengths:
\* Ok when no row is violated, else the error of the first violated row in the order
\* drive byte, timestamp, disk signature, bootcode boundary.
C10_FirstViolatedRow ==
    Compiled =>
        /\ result[1] = IF CodeViolated = {}
                       THEN Ok(MbrWriter(given))
                       ELSE Err(RowError(First(CodeViolated)))
        /\ Cardinality(TableViolated) >= 2 =>
              (CompiledErr /\ CompileError = RowError(First(TableViolated)))

C10_Witness ==
    /\ CompiledErr
    /\ {1, 2} \subseteq TableViolated
    /\ CompileError = OriginalPhysDriveOverlapped

====
